---------------------------- MODULE Spec2Model ----------------------------
(***************************************************************************)
(* The certificate-resolution proxies of the repository: src/server.js     *)
(* (two servers, "S1" lines 1-421 and "S2" lines 423-803) and the four     *)
(* unnamed iterations part_000 .. part_003 ("P0" .. "P3").  One server is  *)
(* running (impl); it handles /search requests against an upstream whose   *)
(* answers are the environment's choice.  A string is a sequence of        *)
(* one-character strings.                                                   *)
(***************************************************************************)
EXTENDS Integers, Sequences, FiniteSets, TLC

(***************************************************************************)
(* Characters and the JavaScript string functions the servers use.         *)
(***************************************************************************)
LowerLetters ==
    <<"a", "b", "c", "d", "e", "f", "g", "h", "i", "j", "k", "l", "m",
      "n", "o", "p", "q", "r", "s", "t", "u", "v", "w", "x", "y", "z">>
UpperLetters ==
    <<"A", "B", "C", "D", "E", "F", "G", "H", "I", "J", "K", "L", "M",
      "N", "O", "P", "Q", "R", "S", "T", "U", "V", "W", "X", "Y", "Z">>
Digits == {"0", "1", "2", "3", "4", "5", "6", "7", "8", "9"}
Whitespace == {" "}

Range(s) == {s[i] : i \in 1..Len(s)}

IsLetter(c) == c \in Range(LowerLetters) \cup Range(UpperLetters)
IsDigit(c) == c \in Digits
IsAlnum(c) == IsLetter(c) \/ IsDigit(c)
IsSpace(c) == c \in Whitespace

UpperChar(c) ==
    IF c \in Range(LowerLetters)
    THEN UpperLetters[CHOOSE i \in 1..Len(LowerLetters) : LowerLetters[i] = c]
    ELSE c

LowerChar(c) ==
    IF c \in Range(UpperLetters)
    THEN LowerLetters[CHOOSE i \in 1..Len(UpperLetters) : UpperLetters[i] = c]
    ELSE c

\* String.prototype.toUpperCase / toLowerCase
toUpperCase(s) == [i \in 1..Len(s) |-> UpperChar(s[i])]
toLowerCase(s) == [i \in 1..Len(s) |-> LowerChar(s[i])]

\* s.replace(/\s+/g, "")
RemoveSpaces(s) == SelectSeq(s, LAMBDA c : ~IsSpace(c))
\* s.replace(/[^0-9A-Za-z]/g, "") and s.replace(/[^0-9A-Za-z]+/g, "")
RemoveNonAlnum(s) == SelectSeq(s, IsAlnum)
\* s.replace(/[^0-9]/g, "")
DigitsOnly(s) == SelectSeq(s, IsDigit)

\* s.replace(/^0+/, "")
RECURSIVE StripLeadingZeros(_)
StripLeadingZeros(s) ==
    IF s # <<>> /\ Head(s) = "0" THEN StripLeadingZeros(Tail(s)) ELSE s

\* s.replace(/^LG/i, "")
StripLG(s) ==
    IF Len(s) >= 2 /\ UpperChar(s[1]) = "L" /\ UpperChar(s[2]) = "G"
    THEN SubSeq(s, 3, Len(s))
    ELSE s

\* s.padStart(n, "0")
padStart(s, n) ==
    IF Len(s) >= n THEN s ELSE [i \in 1..(n - Len(s)) |-> "0"] \o s

\* String.prototype.trim
RECURSIVE TrimLeft(_)
TrimLeft(s) == IF s # <<>> /\ IsSpace(Head(s)) THEN TrimLeft(Tail(s)) ELSE s
RECURSIVE TrimRight(_)
TrimRight(s) ==
    IF s # <<>> /\ IsSpace(s[Len(s)])
    THEN TrimRight(SubSeq(s, 1, Len(s) - 1))
    ELSE s
\* the query parameter used as it came, the call of trim left out
trimOmitted(s) == s

trim(s) == TrimRight(TrimLeft(s))

\* duplicates collapsing onto the last occurrence
RECURSIVE SetOrderKeepLast(_)
SetOrderKeepLast(list) ==
    IF list = <<>> THEN <<>>
    ELSE LET rest == SetOrderKeepLast(Tail(list))
         IN IF Head(list) \in Range(Tail(list)) THEN rest ELSE <<Head(list)>> \o rest

\* every value that occurs more than once dropped altogether
SetOrderDropRepeated(list) ==
    SelectSeq(list, LAMBDA x : Cardinality({i \in 1..Len(list) : list[i] = x}) = 1)

\* Array.from(new Set(list)): duplicates collapse onto the first occurrence
RECURSIVE SetOrder(_)
SetOrder(list) ==
    IF list = <<>> THEN <<>>
    ELSE LET init == SetOrder(SubSeq(list, 1, Len(list) - 1))
             x == list[Len(list)]
         IN IF x \in Range(init) THEN init ELSE Append(init, x)

\* the length filter with > in the place of >=
FilterMinLenStrict(list, n) == SelectSeq(list, LAMBDA v : Len(v) > n)

\* .filter(v => v && v.length >= n); n = 1 is .filter(Boolean)
FilterMinLen(list, n) == SelectSeq(list, LAMBDA v : Len(v) >= n)

PadWidth == 10

\* the candidates each generator builds, in the order it lists them
\* src/server.js first server: new Set([...]) of app.get("/search")
CandidatesS1(cert) ==
    <<cert, toUpperCase(cert), toLowerCase(cert),
      RemoveSpaces(cert), RemoveNonAlnum(cert),
      StripLeadingZeros(cert), padStart(cert, PadWidth)>>

\* src/server.js second server: new Set([...]) of generateCertificateVariants
CandidatesS2(cert) ==
    <<cert, toUpperCase(cert), toLowerCase(cert),
      StripLG(cert), StripLeadingZeros(StripLG(cert)),
      DigitsOnly(cert), RemoveSpaces(cert)>>

\* part_000 and part_002: new Set([...]) of app.get("/search")
CandidatesP0(cert) ==
    <<cert, toUpperCase(cert), RemoveSpaces(cert),
      RemoveNonAlnum(cert), StripLeadingZeros(cert)>>

\* part_001: new Set([...]) of generateCertificateVariants
CandidatesP1(cert) ==
    <<cert, toUpperCase(cert), toLowerCase(cert),
      StripLG(cert), padStart(StripLG(cert), PadWidth),
      DigitsOnly(cert), RemoveSpaces(cert),
      StripLeadingZeros(cert)>>

\* part_003: the v.push(...) calls of makeVariants
CandidatesP3(cert) ==
    <<cert, toUpperCase(cert), RemoveSpaces(cert),
      RemoveNonAlnum(cert), StripLeadingZeros(cert),
      RemoveSpaces(toUpperCase(cert))>>

\* src/server.js first server: the variants of app.get("/search")
VariantsS1(cert) == FilterMinLen(SetOrder(CandidatesS1(cert)), 3)

\* src/server.js second server: generateCertificateVariants
VariantsS2(cert) == FilterMinLen(SetOrder(CandidatesS2(cert)), 2)

\* part_000 and part_002: the variants of app.get("/search")
VariantsP0(cert) == FilterMinLen(SetOrder(CandidatesP0(cert)), 1)

\* part_001: generateCertificateVariants
VariantsP1(cert) == FilterMinLen(SetOrder(CandidatesP1(cert)), 3)

\* part_003: makeVariants
makeVariants(cert) ==
    IF cert = <<>> THEN <<>>
    ELSE FilterMinLen(SetOrder(CandidatesP3(cert)), 1)

Impls == {"S1", "S2", "P0", "P1", "P2", "P3"}

generateCertificateVariants(i, cert) ==
    CASE i = "S1" -> VariantsS1(cert)
      [] i = "S2" -> VariantsS2(cert)
      [] i = "P1" -> VariantsP1(cert)
      [] i = "P3" -> makeVariants(cert)
      [] OTHER -> VariantsP0(cert)

\* the candidate list of server i, before duplicates collapse
Candidates(i, cert) ==
    CASE i = "S1" -> CandidatesS1(cert)
      [] i = "S2" -> CandidatesS2(cert)
      [] i = "P1" -> CandidatesP1(cert)
      [] i = "P3" -> CandidatesP3(cert)
      [] OTHER -> CandidatesP0(cert)

\* the length below which server i drops a candidate: v.length >= 3,
\* x.length >= 2, or filter(Boolean)
MinLen(i) ==
    CASE i \in {"S1", "P1"} -> 3
      [] i = "S2" -> 2
      [] OTHER -> 1

(***************************************************************************)
(* The upstream's answers.  A fetch either rejects (network failure) or    *)
(* resolves with a status and a body; a body is not JSON, a JSON error     *)
(* report, or JSON data.                                                    *)
(***************************************************************************)
NoToken == "null"
Tokens == {"tokA", "tokB"}
BasicCred == "basic"

HttpOk(status) == status >= 200 /\ status <= 299

Reject == [net |-> "reject", status |-> 0, body |-> "none",
           total |-> 0, items |-> 0, item |-> "none"]
InFlight == [net |-> "flight", status |-> 0, body |-> "none",
             total |-> 0, items |-> 0, item |-> "none"]
NoAnswer == [net |-> "none", status |-> 0, body |-> "none",
             total |-> 0, items |-> 0, item |-> "none"]
Http(status, body, total, items, item) ==
    [net |-> "ok", status |-> status, body |-> body,
     total |-> total, items |-> items, item |-> item]

\* what the upstream may answer to a certificate query
QueryAnswers ==
    { Reject,
      Http(503, "notjson", 0, 0, "none"),
      Http(200, "notjson", 0, 0, "none"),
      Http(200, "errors", 0, 0, "none"),
      Http(200, "data", 0, 0, "none"),
      Http(200, "data", 1, 1, "full"),
      Http(200, "data", 1, 0, "none"),
      Http(200, "data", 0, 1, "full"),
      Http(200, "data", 1, 1, "nodiamond") }

AuthReject == [net |-> "reject", status |-> 0, body |-> "none", tok |-> NoToken]
AuthHttp(status, body, tok) ==
    [net |-> "ok", status |-> status, body |-> body, tok |-> tok]

\* what the upstream may answer to an authenticate query
AuthAnswers ==
    { AuthReject,
      AuthHttp(401, "notjson", NoToken),
      AuthHttp(200, "notjson", NoToken),
      AuthHttp(200, "errors", NoToken),
      AuthHttp(200, "notoken", NoToken) }
    \cup { AuthHttp(st, "token", tk) : st \in {200, 401}, tk \in Tokens }

\* what the storefront may answer to a product search / a product creation
ShopSearchAnswers == {"reject", "notjson", "empty", "edge"}
ShopCreateAnswers == {"reject", "ok", "notok"}

(***************************************************************************)
(* Time, in milliseconds since the process started.                        *)
(***************************************************************************)
Hour == 1000 * 60 * 60
StartTime == Hour
MaxTicks == 3

\* the time a token stays cached
TTL(i) ==
    CASE i = "S1" -> 1000 * 60 * 60 * 5
      [] i = "S2" -> 6 * 60 * 60 * 1000 - 60 * 1000
      [] i = "P1" -> 1000 * 60 * 60 * 4
      [] OTHER -> (1000 * 60 * 60 * 11) \div 2

\* the raw ?certificate= values a client sends
RawInputs ==
    { <<>>, <<" ">>, <<"1", "2">>, <<" ", "0", "a", "b">> }

\* time passes in steps of half a time-to-live, so that a cached token is
\* seen before, exactly at and after its expiry
TickStep(i) == TTL(i) \div 2
MaxNow(i) == StartTime + MaxTicks * TickStep(i)

Reqs == {"r1"}

VARIABLES
    impl,            \* which server of the repository is running
    USE_BASIC_AUTH,  \* configuration: pre-shared basic credential
    SHOPIFY_STORE,   \* configuration: storefront domain and token are set
    MAP_BASE_URL,    \* configuration: the base URL is set
    cachedToken, tokenExpiry,
    tokenStart,      \* when the call that wrote the cache had started
    now,
    catalog,         \* what the upstream holds, where a run fixes it
    req              \* per request: the handler's locals and its position

vars == <<impl, USE_BASIC_AUTH, SHOPIFY_STORE, MAP_BASE_URL,
          cachedToken, tokenExpiry, tokenStart, now, catalog, req>>
config == <<impl, USE_BASIC_AUTH, SHOPIFY_STORE, MAP_BASE_URL, catalog>>
cache == <<cachedToken, tokenExpiry, tokenStart>>

NoResp == [code |-> 0, found |-> "absent", variantMatched |-> <<>>,
           hasAttempts |-> FALSE, attempts |-> <<>>, url |-> "none",
           error |-> FALSE]

Resp(code, found, vm, hasAtt, att, url, err) ==
    [code |-> code, found |-> found, variantMatched |-> vm,
     hasAttempts |-> hasAtt, attempts |-> att, url |-> url, error |-> err]

\* A request: the ?certificate= value it came with (raw), the handler's
\* position (pc) and locals, its response, and what the network saw of it: the variants it queried, in order (queried), the
\* upstream's latest answer (lastAns), the first query answered with a
\* non-zero total_count (firstNonZero) and the first answered with a non-zero
\* total_count and a record (firstRecord), as positions in queried, whether
\* every answer so far was a success with zero matches (allZero), whether
\* every answer so far was a failure of transport, status or body
\* (allFailed), the first query whose answer passed the handler's match
\* test, as a position in queried (firstMatch), the latest
\* call of the authentication function (lastAuth), and the authenticate
\* requests it sent (netAuth) and saw fail (authFails); the upstream record
\* the handler builds a URL for (found) and the URL it built (productUrl);
\* the endpoint it is a request of, and the part of the bearer token its
\* response body holds (bodyToken); the storefront product searches and
\* product creations it sent (shopSearches, shopCreates) and the storefront's
\* answer to its latest product search (lastShop).
NoAuth == [out |-> "none", good |-> FALSE, tok |-> NoToken]

\* a JavaScript value that is undefined, and the object {}
Undefined == [defined |-> FALSE]
EmptyObject == [defined |-> TRUE]

\* an upstream whose holdings the run leaves open
NoCatalog == [held |-> {}, certNumber |-> FALSE]

\* the part of a bearer token a response body holds: the first chars
\* characters of the token of
NoSample == [of |-> NoToken, chars |-> 0]
\* token.slice(0, 20)
TokenSample(tok) == [of |-> tok, chars |-> 20]

\* what a call of createProductUrl gave: it threw, or it returned text, the
\* base URL followed by handle
NoUrl == [threw |-> FALSE, text |-> <<>>, handle |-> <<>>]

Idle == [pc |-> "idle", raw |-> <<>>, cert |-> <<>>, variants |-> <<>>,
         idx |-> 0,
         attempts |-> <<>>, authNow |-> 0, token |-> NoToken,
         item |-> "none", resp |-> NoResp,
         queried |-> <<>>, lastAns |-> NoAnswer,
         firstNonZero |-> 0, firstRecord |-> 0, allZero |-> TRUE,
         allFailed |-> TRUE, firstMatch |-> 0,
         lastAuth |-> NoAuth, netAuth |-> 0, authFails |-> 0,
         found |-> Undefined, productUrl |-> NoUrl,
         endpoint |-> "search", bodyToken |-> NoSample,
         shopSearches |-> 0, shopCreates |-> 0, lastShop |-> "none"]

HasAttempts(i) == i \in {"S1", "P0", "P2", "P3"}

Init ==
    /\ impl \in Impls
    /\ USE_BASIC_AUTH \in (IF impl \in {"P0", "P2", "P3"} THEN BOOLEAN ELSE {FALSE})
    /\ SHOPIFY_STORE \in (IF impl \in {"P0", "P3"} THEN BOOLEAN ELSE {FALSE})
    /\ MAP_BASE_URL \in (IF impl \in {"P2", "P3"} THEN BOOLEAN ELSE {TRUE})
    /\ cachedToken = NoToken
    /\ tokenExpiry = 0
    /\ tokenStart = 0
    /\ now = StartTime
    /\ catalog = NoCatalog
    /\ req = [r \in Reqs |-> Idle]

(***************************************************************************)
(* The credential cache and the authentication call.                       *)
(***************************************************************************)
\* the upstream answered with a success status and a JSON body holding a token
AuthWellFormed(a) == a.net = "ok" /\ HttpOk(a.status) /\ a.body = "token"

\* the comparison of the cache test turned around
CacheValidInverted(tok, exp, t) == tok # NoToken /\ t > exp

\* the cache test accepting a token at the instant it expires
CacheValidInclusive(tok, exp, t) == tok # NoToken /\ t <= exp

\* the cache test without its expiry comparison
CacheValidIgnoresExpiry(tok, exp, t) == tok # NoToken

\* if (cachedToken && now < tokenExpiry)
CacheValid(tok, exp, t) == tok # NoToken /\ t < exp

\* the expiry set two times-to-live ahead
NewExpiryTwice(i, callNow) == callNow + 2 * TTL(i)

\* the token written without its expiry
NewExpiryKept(i, callNow) == tokenExpiry

\* the expiry counted from the time the answer arrived
NewExpiryFromAnswer(i, callNow) == now + TTL(i)

\* tokenExpiry = now + TTL, now being the time the call started
NewExpiry(i, callNow) == callNow + TTL(i)

\* the authentication function without its test of the status
AuthSucceedsAnyStatus(i, a) == a.net = "ok" /\ a.body = "token"

\* the authentication function without its test for a missing token
AuthSucceedsNoTokenCheck(i, a) ==
    a.net = "ok" /\ HttpOk(a.status) /\ a.body \in {"token", "notoken"}

\* whether the authentication function accepts the upstream's answer
AuthSucceeds(i, a) ==
    CASE i \in {"S1", "S2", "P1"} ->
            a.net = "ok" /\ HttpOk(a.status) /\ a.body = "token"
      [] OTHER ->
            a.net = "ok" /\ a.body = "token"

Respond(s, response) ==
    [s EXCEPT !.pc = "done", !.resp = response, !.token = NoToken]

\* the catch block of the handler: res.status(500).json({ error ... })
ServerError(s) ==
    Respond(s, Resp(500, IF impl = "S1" THEN "false" ELSE "absent", <<>>,
                    FALSE, <<>>, "none", TRUE))

\* fetchFn(NIVODA_API, authenticate query)
IssueAuth(s) ==
    [s EXCEPT !.pc = "auth", !.authNow = now,
              !.lastAuth = [out |-> "flight", good |-> FALSE, tok |-> NoToken],
              !.netAuth = @ + 1, !.token = NoToken]

\* fetchFn(NIVODA_API, certificate query) for the variant s.idx
IssueQuery(s, tok) ==
    [s EXCEPT !.pc = "query", !.token = tok, !.authNow = 0,
              !.queried = Append(@, s.idx), !.lastAns = InFlight]

\* getAuthToken / authenticateAndGetToken up to its first await, called for
\* the certificate query of the variant s.idx
getAuthToken(s) ==
    IF CacheValid(cachedToken, tokenExpiry, now)
    THEN IssueQuery([s EXCEPT !.lastAuth =
                        [out |-> "cached", good |-> FALSE, tok |-> cachedToken]],
                    cachedToken)
    ELSE IssueAuth(s)

\* a query call that takes the token flow whatever the mode
postGraphQLTokenFlow(s) == getAuthToken(s)

\* postGraphQL / postGraphQLToNivoda; the servers without a basic mode
\* (USE_BASIC_AUTH is FALSE there) always take the token flow
postGraphQL(s) ==
    IF USE_BASIC_AUTH THEN IssueQuery(s, BasicCred) ELSE getAuthToken(s)

(***************************************************************************)
(* The deterministic URL builders: createProductUrl of the two servers of  *)
(* src/server.js and of part_001, applied by /search to the matched record *)
(* and the matched certificate string.                                      *)
(***************************************************************************)
\* o.k of an object: the property, or undefined
Get(o, k) == IF k \in DOMAIN o THEN o[k] ELSE Undefined
\* o.k || dflt of a text property
Text(o, k, dflt) == IF k \in DOMAIN o /\ o[k] # <<>> THEN o[k] ELSE dflt

\* the default object left out
OrEmptyObjectOmitted(o) == o

\* o || {}
OrEmptyObject(o) == IF o.defined THEN o ELSE EmptyObject

IsLower(c) == c \in Range(LowerLetters)

\* .replace(/[^a-z0-9\s-]/g, "")
StripSpecial(s) ==
    SelectSeq(s, LAMBDA c : IsLower(c) \/ IsDigit(c) \/ IsSpace(c) \/ c = "-")

\* .replace(/\s+/g, "-")
RECURSIVE SpacesToHyphen(_)
SpacesToHyphen(s) ==
    IF s = <<>> THEN <<>>
    ELSE IF IsSpace(Head(s)) THEN <<"-">> \o SpacesToHyphen(TrimLeft(Tail(s)))
    ELSE <<Head(s)>> \o SpacesToHyphen(Tail(s))

RECURSIVE StripLeadingHyphens(_)
StripLeadingHyphens(s) ==
    IF s # <<>> /\ Head(s) = "-" THEN StripLeadingHyphens(Tail(s)) ELSE s

RECURSIVE StripTrailingHyphens(_)
StripTrailingHyphens(s) ==
    IF s # <<>> /\ s[Len(s)] = "-"
    THEN StripTrailingHyphens(SubSeq(s, 1, Len(s) - 1))
    ELSE s

\* repeated hyphens left as they are
CollapseHyphensOmitted(s) == s

\* .replace(/-+/g, "-")
RECURSIVE CollapseHyphens(_)
CollapseHyphens(s) ==
    IF s = <<>> THEN <<>>
    ELSE IF Head(s) = "-"
    THEN <<"-">> \o CollapseHyphens(StripLeadingHyphens(Tail(s)))
    ELSE <<Head(s)>> \o CollapseHyphens(Tail(s))

\* .replace(/^-+|-+$/g, "")
TrimHyphens(s) == StripTrailingHyphens(StripLeadingHyphens(s))

\* the handle of a product title
Handle(productTitle) ==
    TrimHyphens(CollapseHyphens(SpacesToHyphen(StripSpecial(
        toLowerCase(productTitle)))))

\* parts.join(sep)
RECURSIVE Join(_, _)
Join(parts, sep) ==
    IF parts = <<>> THEN <<>>
    ELSE IF Len(parts) = 1 THEN parts[1]
    ELSE parts[1] \o sep \o Join(Tail(parts), sep)

Ct == <<"c", "t">>
DefaultShape == <<"D", "i", "a", "m", "o", "n", "d">>

\* `${carats}ct ${shape} ${lab} ${cert}`.trim()
productTitleS1(certificate, cert) ==
    trim(Text(certificate, "carats", <<>>) \o Ct \o <<" ">>
         \o Text(certificate, "shape", DefaultShape) \o <<" ">>
         \o Text(certificate, "lab", <<>>) \o <<" ">> \o cert)

\* [carats + 'ct', shape, lab, color, clarity, cert].filter(Boolean).join('-')
productTitleP1(certificate, cert) ==
    Join(FilterMinLen(<< Text(certificate, "carats", <<>>) \o Ct,
                         Text(certificate, "shape", DefaultShape),
                         Text(certificate, "lab", <<>>),
                         Text(certificate, "color", <<>>),
                         Text(certificate, "clarity", <<>>),
                         cert >>, 1), <<"-">>)

\* [carats ? `${carats}ct` : "", shape, lab, color, clarity, cert]
\*     .filter(Boolean).join(" ").trim()
productTitleS2(certificate, cert) ==
    trim(Join(FilterMinLen(<< IF Text(certificate, "carats", <<>>) # <<>>
                              THEN Text(certificate, "carats", <<>>) \o Ct
                              ELSE <<>>,
                              Text(certificate, "shape", DefaultShape),
                              Text(certificate, "lab", <<>>),
                              Text(certificate, "color", <<>>),
                              Text(certificate, "clarity", <<>>),
                              cert >>, 1), <<" ">>))

\* `${MAP_BASE_URL}`: the second server of src/server.js has a default, the
\* others print an unset base as the text undefined
BaseUrl ==
    IF MAP_BASE_URL THEN <<"/">>
    ELSE <<"u", "n", "d", "e", "f", "i", "n", "e", "d">>

Threw == [threw |-> TRUE, text |-> <<>>, handle |-> <<>>]
Returned(base, handle) ==
    [threw |-> FALSE, text |-> base \o handle, handle |-> handle]

\* createProductUrl of the first server of src/server.js: what throws in
\* the try block ends in the fallback URL
createProductUrlS1(diamond, cert) ==
    LET fallback == Returned(BaseUrl, <<"d", "i", "a", "m", "o", "n", "d", "-">>
                                      \o toLowerCase(cert))
    IN IF ~diamond.defined THEN fallback
       ELSE LET certificate == OrEmptyObject(Get(diamond, "certificate"))
            IN IF ~certificate.defined THEN fallback
               ELSE Returned(BaseUrl, Handle(productTitleS1(certificate, cert)))

\* createProductUrl of part_001: a property read of undefined throws
createProductUrlP1(diamond, cert) ==
    IF ~diamond.defined THEN Threw
    ELSE LET certificate == OrEmptyObject(Get(diamond, "certificate"))
         IN IF ~certificate.defined THEN Threw
            ELSE Returned(BaseUrl, Handle(productTitleP1(certificate, cert)))

\* createProductUrl of the second server of src/server.js
createProductUrlS2(item, cert) ==
    LET certificate ==
            OrEmptyObject(IF item.defined THEN Get(item, "certificate")
                          ELSE Undefined)
    IN IF ~certificate.defined THEN Threw
       ELSE Returned(BaseUrl, Handle(productTitleS2(certificate, cert)))

\* the call of createProductUrl in /search for the record found and the
\* string it matched under
createProductUrl(i, found, matched) ==
    CASE i = "S1" -> createProductUrlS1(Get(found, "diamond"), matched)
      [] i = "P1" -> createProductUrlP1(Get(found, "diamond"), matched)
      [] OTHER ->
            LET diamondObj == OrEmptyObject(Get(found, "diamond"))
                certificate == OrEmptyObject(Get(diamondObj, "certificate"))
            IN createProductUrlS2(certificate,
                                  Text(certificate, "certNumber", matched))

(***************************************************************************)
(* The variant loop of /search.                                            *)
(***************************************************************************)
\* the not-found response built from an attempts list shared by the requests
NotFoundForeignAttempts(s) ==
    IF HasAttempts(impl)
    THEN Resp(200, "false", <<>>, TRUE,
              req[CHOOSE r \in DOMAIN req : TRUE].attempts, "none", FALSE)
    ELSE Resp(404, "absent", <<>>, FALSE, <<>>, "none", TRUE)

\* the response when no variant matched
NotFound(s) ==
    IF HasAttempts(impl)
    THEN Resp(200, "false", <<>>, TRUE, s.attempts, "none", FALSE)
    ELSE Resp(404, "absent", <<>>, FALSE, <<>>, "none", TRUE)

\* a loop that starts over once the variants are exhausted
LoopStartsOver(s, i) ==
    postGraphQL([s EXCEPT !.idx = IF i > Len(s.variants) THEN 1 ELSE i])

\* for (const variant of variants): iteration i, or the end of the loop
Loop(s, i) ==
    IF i > Len(s.variants)
    THEN Respond(s, NotFound(s))
    ELSE postGraphQL([s EXCEPT !.idx = i])

\* every query taken to be for the first variant
CurrentVariantFirst(s) == IF s.idx = 0 THEN s.cert ELSE s.variants[1]

\* the variant a query is for; the batched query of S2 (idx 0) is for all
CurrentVariant(s) == IF s.idx = 0 THEN s.cert ELSE s.variants[s.idx]

\* what queryByCertificate of S1 returns
queryByCertificateS1(a) ==
    IF a.net = "reject"
    THEN [status |-> 500, json |-> FALSE, error |-> "network"]
    ELSE IF ~HttpOk(a.status)
    THEN [status |-> a.status, json |-> FALSE, error |-> "API Error"]
    ELSE IF a.body = "notjson"
    THEN [status |-> a.status, json |-> FALSE, error |-> "Invalid JSON response"]
    ELSE [status |-> a.status, json |-> TRUE, error |-> "null"]

\* whether the handler sees a diamonds_by_query object in the answer
HasQueryResult(i, a) ==
    CASE i \in {"S1", "S2", "P1"} ->
            a.net = "ok" /\ HttpOk(a.status) /\ a.body = "data"
      [] OTHER ->
            a.net = "ok" /\ a.body = "data"

\* total_count || 0, and the length of items || []
Total(i, a) == IF HasQueryResult(i, a) THEN a.total ELSE 0
Items(i, a) == IF HasQueryResult(i, a) THEN a.items ELSE 0

\* whether the query call throws into its caller
QueryThrows(i, a) ==
    CASE i = "S1" -> FALSE
      [] i = "P1" -> a.net = "reject" \/ ~HttpOk(a.status)
                     \/ a.body \in {"notjson", "errors"}
      [] i = "S2" -> a.net = "reject" \/ ~HttpOk(a.status) \/ a.body = "notjson"
      [] OTHER -> a.net = "reject"

\* the match test with its threshold off by one
MatchTestOffByOne(i, a) == Total(i, a) > 1 /\ Items(i, a) > 0

\* the test that ends the loop with a match
MatchTest(i, a) ==
    CASE i \in {"S1", "S2", "P1"} -> Total(i, a) > 0 /\ Items(i, a) > 0
      [] i \in {"P0", "P2"} -> Total(i, a) > 0
      [] OTHER -> Items(i, a) > 0

\* attempts.push({ ... })
NewAttempt(i, variant, a) ==
    CASE i = "S1" ->
            [variant |-> variant, status |-> queryByCertificateS1(a).status,
             total |-> Total(i, a), hasData |-> Total(i, a) > 0,
             error |-> queryByCertificateS1(a).error]
      [] i = "P0" ->
            [variant |-> variant, status |-> a.status,
             total |-> Total(i, a), hasData |-> Total(i, a) > 0]
      [] OTHER ->
            [variant |-> variant, status |-> a.status,
             total |-> Total(i, a), raw |-> a.body]

\* S1: queryByCertificate caught the error of getAuthToken
AuthErrorAttempt(variant) ==
    [variant |-> variant, status |-> 500, total |-> 0, hasData |-> FALSE,
     error |-> "auth"]

Found(s, url) ==
    Respond(s, Resp(200, "true", CurrentVariant(s), HasAttempts(impl),
                    s.attempts, url, FALSE))

\* redirectUrl = MAP_BASE_URL ? MAP_BASE_URL + ... : null
MapUrl == IF MAP_BASE_URL THEN "map" ELSE "null"

\* items[0] of an answer: the record the answer carries, or for an answer
\* that tells only the kind of its record, a record of that kind
Record(a) ==
    IF "found" \in DOMAIN a THEN a.found
    ELSE IF a.item = "full"
    THEN [defined |-> TRUE,
          diamond |-> [defined |-> TRUE, certificate |-> EmptyObject]]
    ELSE EmptyObject

\* the match of the second server of src/server.js: the response's
\* certificate is certificate.certNumber || certRaw for the batched query and
\* certificate.certNumber || variant in the loop
MatchedS2(s, a) ==
    LET diamondObj == OrEmptyObject(Get(Record(a), "diamond"))
        certificate == OrEmptyObject(Get(diamondObj, "certificate"))
    IN Respond([s EXCEPT !.found = Record(a),
                         !.productUrl =
                             createProductUrl("S2", Record(a), CurrentVariant(s))],
               Resp(200, "true", Text(certificate, "certNumber", CurrentVariant(s)),
                    FALSE, s.attempts, "slug", FALSE))

\* the body of if (total > 0 ...) { ... }, up to its first await or response
Matched(s, a) ==
    CASE impl = "S1" ->
            IF a.item = "nodiamond" THEN ServerError(s) ELSE Found(s, "slug")
      [] impl = "S2" -> MatchedS2(s, a)
      [] impl = "P1" ->
            IF a.item = "nodiamond" THEN Loop(s, s.idx + 1) ELSE Found(s, "slug")
      [] impl = "P0" ->
            IF a.items = 0 \/ a.item = "nodiamond" THEN ServerError(s)
            ELSE IF ~SHOPIFY_STORE THEN Found(s, "collection")
            ELSE [s EXCEPT !.pc = "shopSearch", !.item = a.item,
                           !.shopSearches = @ + 1]
      [] impl = "P2" ->
            IF a.items = 0 THEN ServerError(s) ELSE Found(s, MapUrl)
      [] OTHER ->
            IF ~SHOPIFY_STORE THEN Found(s, MapUrl)
            ELSE [s EXCEPT !.pc = "shopSearch", !.item = a.item,
                           !.shopSearches = @ + 1]

\* the handler after getAuthToken threw for the variant s.idx
AuthFailed(s) ==
    CASE impl = "S1" ->
            Loop([s EXCEPT !.attempts =
                     Append(@, AuthErrorAttempt(CurrentVariant(s)))], s.idx + 1)
      [] impl \in {"S2", "P1"} -> Loop(s, s.idx + 1)
      [] OTHER -> ServerError(s)

(***************************************************************************)
(* The actions: a handler runs from one await to the next.                 *)
(***************************************************************************)
\* GET /search?certificate=raw arrives
Search(r, raw) ==
    /\ req[r].pc \in {"idle", "done"}
    /\ LET cert == trim(raw)
           s0 == [Idle EXCEPT !.raw = raw, !.cert = cert,
                              !.variants = generateCertificateVariants(impl, cert)]
       IN req' = [req EXCEPT ![r] =
                    IF cert = <<>>
                    THEN Respond([Idle EXCEPT !.raw = raw],
                                 Resp(400, IF impl = "S1" THEN "false" ELSE "absent",
                                            <<>>, FALSE, <<>>, "none", TRUE))
                    ELSE IF impl = "S2" THEN postGraphQL(s0)
                    ELSE Loop(s0, 1)]
    /\ UNCHANGED <<config, cache, now>>

\* the network saw the upstream answer the latest query with a
Observe(s, a) ==
    [s EXCEPT !.lastAns = a,
              !.firstNonZero = IF @ = 0 /\ a.total > 0 THEN Len(s.queried) ELSE @,
              !.firstRecord = IF @ = 0 /\ a.total > 0 /\ a.items > 0
                              THEN Len(s.queried) ELSE @,
              !.allZero = @ /\ a = Http(200, "data", 0, 0, "none"),
              !.allFailed = @ /\ (a.net = "reject" \/ ~HttpOk(a.status)
                                                  \/ a.body = "notjson"),
              !.firstMatch = IF @ = 0 /\ ~QueryThrows(impl, a) /\ MatchTest(impl, a)
                             THEN Len(s.queried) ELSE @]

\* /debug-auth and /test-auth after the authentication function returned tok
DebugToken(s, tok) ==
    CASE impl = "S1" -> [s EXCEPT !.pc = "debugTest", !.token = tok]
      [] impl \in {"S2", "P1"} ->
            Respond(s, Resp(200, "absent", <<>>, FALSE, <<>>, "none", FALSE))
      [] OTHER ->
            Respond([s EXCEPT !.bodyToken = TokenSample(tok)],
                    Resp(200, "absent", <<>>, FALSE, <<>>, "none", FALSE))

\* the catch block of /debug-auth and /test-auth
DebugError(s) ==
    Respond(s, Resp(500, "absent", <<>>, FALSE, <<>>, "none", TRUE))

\* the authenticate fetch settles with answer a
AuthResponse(r, a) ==
    /\ req[r].pc = "auth"
    /\ LET s == req[r]
           ok == AuthSucceeds(impl, a)
           s1 == [s EXCEPT !.lastAuth =
                     [out |-> IF ok THEN "token" ELSE "error",
                      good |-> AuthWellFormed(a),
                      tok |-> IF ok THEN a.tok ELSE NoToken],
                           !.authFails = IF ok THEN @ ELSE @ + 1]
       IN IF ok
          THEN /\ cachedToken' = a.tok
               /\ tokenExpiry' = NewExpiry(impl, s.authNow)
               /\ tokenStart' = s.authNow
               /\ req' = [req EXCEPT ![r] =
                            IF s.endpoint = "debug" THEN DebugToken(s1, a.tok)
                            ELSE IssueQuery(s1, a.tok)]
          ELSE /\ UNCHANGED cache
               /\ req' = [req EXCEPT ![r] =
                            IF s.endpoint = "debug" THEN DebugError(s1)
                            ELSE AuthFailed(s1)]
    /\ UNCHANGED <<config, now>>

\* the certificate query fetch settles with answer a
QueryResponse(r, a) ==
    /\ req[r].pc = "query"
    /\ LET s == req[r]
           s1 == Observe(s, a)
           s2 == IF HasAttempts(impl)
                 THEN [s1 EXCEPT !.attempts =
                          Append(@, NewAttempt(impl, CurrentVariant(s), a))]
                 ELSE s1
       IN req' = [req EXCEPT ![r] =
                    IF QueryThrows(impl, a)
                    THEN IF impl \in {"S2", "P1"} THEN Loop(s1, s.idx + 1)
                         ELSE ServerError(s1)
                    ELSE IF MatchTest(impl, a) THEN Matched(s2, a)
                    ELSE Loop(s2, s.idx + 1)]
    /\ UNCHANGED <<config, cache, now>>

\* the storefront product search settles (findOrCreateShopifyProduct of P0,
\* findShopifyProduct of P3)
ShopSearchResponse(r, sa) ==
    /\ req[r].pc = "shopSearch"
    /\ LET s == [req[r] EXCEPT !.lastShop = sa]
       IN req' = [req EXCEPT ![r] =
                    IF impl = "P0"
                    THEN CASE sa = "edge" -> Found(s, "shopify")
                           [] sa = "empty" -> [s EXCEPT !.pc = "shopCreate",
                                                        !.shopCreates = @ + 1]
                           [] OTHER -> Found(s, "collection")
                    ELSE CASE sa = "edge" -> Found(s, "shopify")
                           [] sa = "reject" -> ServerError(s)
                           [] OTHER -> Found(s, MapUrl)]
    /\ UNCHANGED <<config, cache, now>>

\* the product creation sent again when it did not succeed
ShopCreateResponseRetry(r, ca) ==
    /\ req[r].pc = "shopCreate"
    /\ req' = [req EXCEPT ![r] =
                 IF ca = "ok" THEN Found(req[r], "created")
                 ELSE [req[r] EXCEPT !.shopCreates = @ + 1]]
    /\ UNCHANGED <<config, cache, now>>

\* the storefront product creation of P0 settles
ShopCreateResponse(r, ca) ==
    /\ req[r].pc = "shopCreate"
    /\ req' = [req EXCEPT ![r] =
                 IF ca = "ok" THEN Found(req[r], "created")
                 ELSE Found(req[r], "collection")]
    /\ UNCHANGED <<config, cache, now>>

\* GET /debug-auth (GET /test-auth in the second server of src/server.js and
\* in part_001) arrives
DebugAuth(r) ==
    /\ req[r].pc \in {"idle", "done"}
    /\ LET s0 == [Idle EXCEPT !.endpoint = "debug"]
       IN req' = [req EXCEPT ![r] =
                    IF USE_BASIC_AUTH
                    THEN Respond(s0, Resp(200, "absent", <<>>, FALSE, <<>>,
                                          "none", FALSE))
                    ELSE IF CacheValid(cachedToken, tokenExpiry, now)
                    THEN DebugToken([s0 EXCEPT !.lastAuth =
                                        [out |-> "cached", good |-> FALSE,
                                         tok |-> cachedToken]], cachedToken)
                    ELSE IssueAuth(s0)]
    /\ UNCHANGED <<config, cache, now>>

\* the test query of /debug-auth in the first server of src/server.js
\* settles with answer a
DebugTestResponse(r, a) ==
    /\ req[r].pc = "debugTest"
    /\ req' = [req EXCEPT ![r] =
                 IF a.net = "reject" THEN DebugError(req[r])
                 ELSE Respond(req[r], Resp(200, "absent", <<>>, FALSE, <<>>,
                                           "none", FALSE))]
    /\ UNCHANGED <<config, cache, now>>

\* time passes
Tick ==
    /\ now + TickStep(impl) <= MaxNow(impl)
    /\ now' = now + TickStep(impl)
    /\ UNCHANGED <<config, cache, req>>

Next ==
    \/ \E r \in DOMAIN req, raw \in RawInputs : Search(r, raw)
    \/ \E r \in DOMAIN req, a \in AuthAnswers : AuthResponse(r, a)
    \/ \E r \in DOMAIN req, a \in QueryAnswers : QueryResponse(r, a)
    \/ \E r \in DOMAIN req, sa \in ShopSearchAnswers : ShopSearchResponse(r, sa)
    \/ \E r \in DOMAIN req, ca \in ShopCreateAnswers : ShopCreateResponse(r, ca)
    \/ Tick

Spec == Init /\ [][Next]_vars

(***************************************************************************)
(* Concurrent requests: the first server of src/server.js handling two     *)
(* /search requests whose awaits interleave.                               *)
(***************************************************************************)
ConcReqs == {"r1", "r2"}
ConcInputs == { <<"1", "2">>, <<"1", "2", "3">> }
ConcAuthAnswers ==
    { AuthHttp(200, "notoken", NoToken) }
    \cup { AuthHttp(200, "token", tk) : tk \in Tokens }
ConcQueryAnswers ==
    { Http(200, "data", 0, 0, "none"), Http(200, "data", 1, 1, "full") }

InitConc ==
    /\ impl = "S1"
    /\ USE_BASIC_AUTH = FALSE /\ SHOPIFY_STORE = FALSE /\ MAP_BASE_URL = TRUE
    /\ cachedToken = NoToken
    /\ tokenExpiry = 0
    /\ tokenStart = 0
    /\ now = StartTime
    /\ catalog = NoCatalog
    /\ req = [r \in ConcReqs |-> Idle]

NextConc ==
    \/ \E r \in DOMAIN req, raw \in ConcInputs : Search(r, raw)
    \/ \E r \in DOMAIN req, a \in ConcAuthAnswers : AuthResponse(r, a)
    \/ \E r \in DOMAIN req, a \in ConcQueryAnswers : QueryResponse(r, a)
    \/ Tick

SpecConc == InitConc /\ [][NextConc]_vars

(***************************************************************************)
(* The variant generators on their own: a request arrives with any short   *)
(* ?certificate= value, the handler trims it and builds the variants; the  *)
(* first variant then comes back as the certificate of a further request.  *)
(***************************************************************************)
MaxLen == 4
GenAlphabet == {" ", "-", "0", "1", "a", "l", "G"}
GenInputs == UNION { [1..n -> GenAlphabet] : n \in 0..MaxLen }

InitGen ==
    /\ impl \in Impls
    /\ USE_BASIC_AUTH = FALSE /\ SHOPIFY_STORE = FALSE /\ MAP_BASE_URL = TRUE
    /\ cachedToken = NoToken
    /\ tokenExpiry = 0
    /\ tokenStart = 0
    /\ now = StartTime
    /\ catalog = NoCatalog
    /\ \E raw \in GenInputs :
          req = [r \in Reqs |-> [Idle EXCEPT !.pc = "arrived", !.raw = raw]]

\* the handler from the trim to the variants (or the 400)
Generate(r) ==
    /\ req[r].pc = "arrived"
    /\ LET cert == trim(req[r].raw)
       IN req' = [req EXCEPT ![r] =
                    IF cert = <<>>
                    THEN Respond(@, Resp(400, IF impl = "S1" THEN "false" ELSE "absent",
                                         <<>>, FALSE, <<>>, "none", TRUE))
                    ELSE [@ EXCEPT !.pc = "generated", !.cert = cert,
                                   !.variants = generateCertificateVariants(impl, cert)]]
    /\ UNCHANGED <<config, cache, now>>

\* the first variant sent back as the ?certificate= of a further request
Regenerate(r) ==
    /\ req[r].pc = "generated"
    /\ req[r].variants # <<>>
    /\ LET v == req[r].variants[1]
           cert == trim(v)
       IN req' = [req EXCEPT ![r] =
                    [@ EXCEPT !.pc = "regenerated", !.raw = v, !.cert = cert,
                              !.variants = generateCertificateVariants(impl, cert)]]
    /\ UNCHANGED <<config, cache, now>>

NextGen ==
    \/ \E r \in DOMAIN req : Generate(r)
    \/ \E r \in DOMAIN req : Regenerate(r)

SpecGen == InitGen /\ [][NextGen]_vars

(***************************************************************************)
(* The claims.                                                             *)
(***************************************************************************)
Last(q) == q[Len(q)]

\* the upstream's answer is a failure of the query: the fetch rejected, the
\* status is not a success, or the body is not JSON
IsFailure(a) ==
    \/ a.net = "reject"
    \/ a.net = "ok" /\ (~HttpOk(a.status) \/ a.body = "notjson")

\* this step of request r calls the authentication function
CallsAuth(r) ==
    /\ req'[r] # req[r]
    /\ req'[r].pc \in {"auth", "query"}
    /\ req'[r].lastAuth.out \in {"cached", "flight"}
    /\ \/ req[r].pc \in {"idle", "done"}
       \/ req'[r].idx # req[r].idx

\* the authenticate requests request r had sent before this step's call
AuthSentBefore(r) ==
    IF req[r].pc \in {"idle", "done"} THEN 0 ELSE req[r].netAuth

\* C1: in the /search handlers of S1, P0 and P3, when some variant's answer
\* reported a non-zero match count, the response is found:true and
\* variantMatched is the first variant whose answer reported one.
C1_FirstMatchWins ==
    \A r \in DOMAIN req :
        LET s == req[r]
        IN (impl \in {"S1", "P0", "P3"} /\ s.pc = "done" /\ s.firstNonZero # 0)
           => /\ s.resp.found = "true"
              /\ s.resp.variantMatched = s.variants[s.queried[s.firstNonZero]]

\* C2: within one /search request of S1 the certificate queries are issued
\* in generator order, a query is issued only after every earlier one has
\* settled without a match, and none is issued after a query that matched.
C2_QueriesSequential ==
    \A r \in DOMAIN req :
        LET s == req[r]
        IN impl = "S1"
           => /\ \A i, j \in 1..Len(s.queried) :
                    i < j => s.queried[i] < s.queried[j]
              /\ (s.lastAns = InFlight) <=> (s.pc = "query")
              /\ s.firstRecord # 0
                 => (s.firstRecord = Len(s.queried) /\ s.pc = "done")

\* C2's case: the second query of a request was issued after the first had
\* settled without a match, and it matched.
C2_Witness ==
    \E r \in DOMAIN req :
        LET s == req[r]
        IN /\ impl = "S1" /\ s.pc = "done" /\ s.resp.found = "true"
           /\ Len(s.queried) = 2 /\ s.firstRecord = 2
           /\ s.resp.variantMatched = s.variants[2]

\* C3: when the upstream answered every variant's query with a success and
\* zero matches, /search of S1 and P1 responds without an error, found:false,
\* with an attempts list as long as the variant list.
C3_ExhaustionIsNormal ==
    \A r \in DOMAIN req :
        LET s == req[r]
        IN (/\ impl \in {"S1", "P1"} /\ s.pc = "done"
            /\ s.variants # <<>> /\ Len(s.queried) = Len(s.variants)
            /\ s.allZero)
           => /\ s.resp.code = 200 /\ ~s.resp.error
              /\ s.resp.found = "false"
              /\ s.resp.hasAttempts
              /\ Len(s.resp.attempts) = Len(s.variants)

\* C4: every /search response of S1 and P0 sent after a certificate query
\* was issued carries an attempts list with exactly one entry for each
\* variant queried, in query order.
C4_AttemptsAlwaysReturned ==
    \A r \in DOMAIN req :
        LET s == req[r]
        IN (impl \in {"S1", "P0"} /\ s.pc = "done" /\ s.queried # <<>>)
           => /\ s.resp.hasAttempts
              /\ Len(s.resp.attempts) = Len(s.queried)
              /\ \A k \in 1..Len(s.queried) :
                    s.resp.attempts[k].variant = s.variants[s.queried[k]]

\* C5: in S1, P0 and P3, when the query of a variant fails (network failure,
\* non-success status, unparsable body) the failure is recorded as that
\* variant's attempt, the loop moves on to the next variant, and the request
\* does not end with a 500.
C5_QueryFailureDoesNotAbort ==
    \A r \in DOMAIN req :
        LET s == req[r]
        IN (impl \in {"S1", "P0", "P3"} /\ s.queried # <<>> /\ IsFailure(s.lastAns))
           => /\ ~(s.pc = "done" /\ s.resp.code = 500)
              /\ \E k \in 1..Len(s.attempts) :
                    /\ s.attempts[k].variant = s.variants[Last(s.queried)]
                    /\ s.attempts[k].total = 0
              /\ \/ Last(s.queried) = Len(s.variants)
                 \/ s.idx > Last(s.queried)

\* C6: in /search of S1 and P1, once an authentication has failed the
\* request has ended with a 500, no certificate query is in flight, and no
\* attempt was recorded for a variant that was not queried.
C6_AuthFailureAborts ==
    \A r \in DOMAIN req :
        LET s == req[r]
        IN (impl \in {"S1", "P1"} /\ s.authFails >= 1)
           => /\ s.pc = "done" /\ s.resp.code = 500
              /\ s.lastAns # InFlight
              /\ Len(s.attempts) = Len(s.queried)

\* C7: within one /search request of S1 and P1, once an authentication
\* request has failed no further authentication request is issued.
C7_NoAuthRetry ==
    \A r \in DOMAIN req :
        LET s == req[r]
        IN (impl \in {"S1", "P1"} /\ s.authFails >= 1)
           => (s.authFails = 1 /\ s.lastAuth.out = "error")

\* C8: whenever the authentication function is called while a token is
\* cached and now < tokenExpiry, it returns the cached token, sends no
\* authenticate request, and leaves cachedToken and tokenExpiry unchanged.
C8_CacheHit ==
    [][\A r \in DOMAIN req :
          (CallsAuth(r) /\ cachedToken # NoToken /\ now < tokenExpiry)
          => /\ req'[r].lastAuth.out = "cached"
             /\ req'[r].lastAuth.tok = cachedToken
             /\ req'[r].token = cachedToken
             /\ req'[r].pc # "auth"
             /\ req'[r].netAuth = AuthSentBefore(r)
             /\ cachedToken' = cachedToken
             /\ tokenExpiry' = tokenExpiry]_vars

\* C8's case: a call was served from the cache, after time had passed since
\* the token was obtained.
C8_Witness ==
    \E r \in DOMAIN req :
        /\ req[r].lastAuth.out = "cached"
        /\ req[r].pc = "query"
        /\ req[r].token = cachedToken
        /\ now > StartTime /\ now < tokenExpiry

\* C9: when the authentication function is called with no cached token or
\* with now >= tokenExpiry it sends exactly one authenticate request; when
\* the upstream answers it with a success, the cache holds the returned
\* token with tokenExpiry = (the time of the call) + TTL, TTL within 4 to 6
\* hours, and the call returns that token.
C9_Refresh ==
    [][\A r \in DOMAIN req :
          /\ (CallsAuth(r) /\ ~(cachedToken # NoToken /\ now < tokenExpiry))
             => /\ req'[r].pc = "auth"
                /\ req'[r].netAuth = AuthSentBefore(r) + 1
                /\ req'[r].authNow = now
                /\ UNCHANGED cache
          /\ (req[r].pc = "auth" /\ req'[r].lastAuth.good
              /\ req'[r].lastAuth.out # "flight")
             => /\ req'[r].lastAuth.out = "token"
                /\ req'[r].lastAuth.tok \in Tokens
                /\ cachedToken' = req'[r].lastAuth.tok
                /\ tokenExpiry' = req[r].authNow + TTL(impl)
                /\ TTL(impl) >= 4 * Hour /\ TTL(impl) <= 6 * Hour
                /\ req'[r].token = req'[r].lastAuth.tok
                /\ req'[r].netAuth = req[r].netAuth]_vars

\* C9's case: a refresh succeeded whose answer arrived after time had passed
\* since the call, and it replaced a token cached before.
C9_Witness ==
    \E r \in DOMAIN req :
        /\ req[r].lastAuth.out = "token" /\ req[r].lastAuth.good
        /\ req[r].pc = "query"
        /\ cachedToken = req[r].lastAuth.tok
        /\ req[r].token = cachedToken
        /\ tokenExpiry < now + TTL(impl)
        /\ tokenExpiry > StartTime + TTL(impl)

\* C10: every authentication function fails, and returns no token, when the
\* upstream's answer has a non-success status, a body that is not JSON, or a
\* body without the token field.
C10_BadAuthAnswerFails ==
    \A r \in DOMAIN req :
        LET la == req[r].lastAuth
        IN (la.out \in {"token", "error"} /\ ~la.good)
           => (la.out = "error" /\ la.tok = NoToken)

\* C11: in /search of S1, when the cached token is no longer valid at the
\* time the loop moves on to the next variant, that variant's query is
\* preceded by a fresh authenticate request and carries the token that
\* request returned; the variants and their order do not change during the
\* run, and the response holds exactly one attempt per variant tried, in
\* variant order.
C11_ExpiryMidRun ==
    [][\A r \in DOMAIN req :
          LET s == req[r]
              t == req'[r]
          IN impl = "S1" =>
             /\ (/\ s.pc = "query" /\ t # s /\ t.pc \in {"auth", "query"}
                 /\ ~(cachedToken # NoToken /\ now < tokenExpiry))
                => /\ t.pc = "auth"
                   /\ t.netAuth = s.netAuth + 1
                   /\ t.queried = s.queried
                   /\ t.idx = s.idx + 1
             /\ (s.pc = "auth" /\ t.pc = "query")
                => /\ t.lastAuth.out = "token"
                   /\ t.token = t.lastAuth.tok /\ t.token \in Tokens
                   /\ t.token = cachedToken'
                   /\ t.idx = s.idx
                   /\ t.queried = Append(s.queried, s.idx)
                   /\ t.attempts = s.attempts
             /\ (s.pc \in {"auth", "query"})
                => (t.variants = s.variants /\ t.cert = s.cert)
             /\ (t.pc \in {"auth", "query"})
                => Len(t.attempts) = t.idx - 1
             /\ (s.pc \in {"auth", "query"} /\ t.pc = "done" /\ t.resp.code = 200)
                => /\ Len(t.resp.attempts) =
                         (IF t.resp.found = "true" THEN t.idx ELSE Len(t.variants))
                   /\ \A k \in 1..Len(t.resp.attempts) :
                         t.resp.attempts[k].variant = t.variants[k]]_vars

\* C11's case: the second variant's query of a request went out with a token
\* obtained by a second authenticate request, the token of the first having
\* expired after the first variant's query.
C11_Witness ==
    \E r \in DOMAIN req :
        LET s == req[r]
        IN /\ impl = "S1" /\ s.pc = "query"
           /\ s.idx = 2 /\ s.queried = <<1, 2>>
           /\ s.netAuth = 2 /\ s.authFails = 0
           /\ s.lastAuth.out = "token" /\ s.token = cachedToken
           /\ Len(s.attempts) = 1

\* this step of request r sends a certificate query
SendsQuery(r) ==
    /\ req'[r] # req[r]
    /\ req'[r].pc = "query"
    /\ req'[r].lastAns = InFlight

\* C12: under every interleaving of two requests that refresh the cache
\* without a lock, the cache changes only when an authenticate request
\* settles with a success, and then to the token that answer returned with
\* the expiry computed from the start of that very call; every certificate
\* query sent carries such a token; and once the authentications have
\* settled the cache holds one of the tokens they returned.
C12_NoLockNeeded ==
    [][/\ (<<cachedToken, tokenExpiry>>' # <<cachedToken, tokenExpiry>>)
          => \E r \in DOMAIN req :
                /\ req[r].pc = "auth"
                /\ req'[r].lastAuth.out = "token"
                /\ cachedToken' = req'[r].lastAuth.tok
                /\ cachedToken' \in Tokens
                /\ tokenExpiry' = req[r].authNow + TTL(impl)
                /\ req[r].authNow <= now
       /\ \A r \in DOMAIN req :
             SendsQuery(r)
             => /\ req'[r].token \in Tokens
                /\ req'[r].token = cachedToken'
                /\ req'[r].token = req'[r].lastAuth.tok
       /\ (\A r \in DOMAIN req : req'[r].lastAuth.out = "token")
          => \E r \in DOMAIN req : cachedToken' = req'[r].lastAuth.tok]_vars

\* C12's case: two refreshes raced on the empty cache and both succeeded
\* with different tokens; the query of the one that settled first carries
\* its own token, the cache holds the other's.
C12_Witness ==
    /\ now = StartTime
    /\ \A r \in DOMAIN req :
          /\ req[r].pc = "query" /\ req[r].netAuth = 1
          /\ req[r].lastAuth.out = "token"
    /\ \E r1, r2 \in DOMAIN req :
          /\ req[r1].token # req[r2].token
          /\ cachedToken = req[r2].token
          /\ tokenExpiry = StartTime + TTL(impl)

\* C13: nothing keeps a second authenticate request from being sent while
\* one is in flight: a request that calls getAuthToken with no valid token
\* cached while another request's authentication is in flight sends its own
\* authenticate request, and the other's stays in flight.
C13_NoSingleFlight ==
    [][\A r \in DOMAIN req :
          (/\ CallsAuth(r)
           /\ ~(cachedToken # NoToken /\ now < tokenExpiry)
           /\ \E r2 \in DOMAIN req \ {r} : req[r2].pc = "auth")
          => /\ req'[r].pc = "auth"
             /\ req'[r].netAuth = AuthSentBefore(r) + 1
             /\ \E r2 \in DOMAIN req \ {r} : req'[r2].pc = "auth"]_vars

\* C13's case: two authenticate requests, sent at the same time by two
\* requests, are in flight together.
C13_Witness ==
    \E r1, r2 \in DOMAIN req :
        /\ r1 # r2
        /\ req[r1].pc = "auth" /\ req[r2].pc = "auth"
        /\ req[r1].authNow = req[r2].authNow
        /\ req[r1].lastAuth.out = "flight" /\ req[r2].lastAuth.out = "flight"

\* C14: under every interleaving of two /search requests a step of one
\* request changes nothing of the other, nor anything else but the cache;
\* the variants of a request are those of its own certificate, and a 200
\* response carries the request's own attempts, one per own variant in
\* order, with found and variantMatched decided by the answer to its own
\* last query.
C14_NoCrossRequestState ==
    [][/\ \A r, r2 \in DOMAIN req :
             (req'[r] # req[r] /\ r2 # r) => req'[r2] = req[r2]
       /\ (req' # req) => (now' = now /\ UNCHANGED config)
       /\ \A r \in DOMAIN req :
             LET t == req'[r]
             IN /\ t.cert = trim(t.raw)
                /\ t.cert # <<>>
                   => t.variants = generateCertificateVariants(impl, trim(t.raw))
                /\ (t.pc = "done" /\ t.resp.code = 200)
                   => /\ t.resp.attempts = t.attempts
                      /\ \A k \in 1..Len(t.resp.attempts) :
                            t.resp.attempts[k].variant = t.variants[k]
                      /\ t.resp.found = "true"
                         => /\ MatchTest(impl, t.lastAns)
                            /\ t.resp.variantMatched = t.variants[Last(t.queried)]
                      /\ t.resp.found = "false"
                         => ~MatchTest(impl, t.lastAns)]_vars

\* C14's case: two requests for different certificates ran interleaved and
\* ended differently, each response holding the attempts of its own
\* variants only.
C14_Witness ==
    \E r1, r2 \in DOMAIN req :
        /\ req[r1].pc = "done" /\ req[r2].pc = "done"
        /\ req[r1].cert # req[r2].cert
        /\ req[r1].resp.found = "true" /\ req[r2].resp.found = "false"
        /\ Len(req[r1].resp.attempts) = 1
        /\ Len(req[r2].resp.attempts) = 2
        /\ req[r1].lastAuth.out = "cached"
        /\ req[r2].lastAuth.out = "token"

\* the ?certificate= value is missing, or nothing but whitespace
IsBlank(raw) == \A i \in 1..Len(raw) : IsSpace(raw[i])

HasVariants(s) == s.pc \in {"generated", "regenerated"}

\* the place where x first occurs in list
FirstIndex(list, x) ==
    CHOOSE i \in 1..Len(list) :
        list[i] = x /\ \A j \in 1..(i - 1) : list[j] # x

C17_NoDuplicatesFirstSeenOrder ==
    \A r \in DOMAIN req :
        LET s == req[r]
            v == s.variants
            c == Candidates(impl, s.cert)
        IN (HasVariants(s) /\ s.cert # <<>>)
           => /\ \A i, j \in 1..Len(v) : i # j => v[i] # v[j]
              /\ Range(v) = {x \in Range(c) : Len(x) >= MinLen(impl)}
              /\ \A i, j \in 1..Len(v) :
                    i < j => FirstIndex(c, v[i]) < FirstIndex(c, v[j])

\* C17's case: in S1 the lowercase, whitespace-stripped and
\* leading-zero-stripped candidates repeat the certificate and collapse;
\* four variants remain in list order.
C17_Witness ==
    \E r \in DOMAIN req :
        LET s == req[r]
        IN /\ impl = "S1" /\ s.pc = "generated"
           /\ Len(s.variants) = 4
           /\ s.variants[1] = s.cert
           /\ s.variants[2] = toUpperCase(s.cert)
           /\ s.variants[3] = RemoveNonAlnum(s.cert)
           /\ s.variants[4] = padStart(s.cert, PadWidth)

\* C18: in every variant generator no variant is shorter than two
\* characters.
C18_MinLength ==
    \A r \in DOMAIN req :
        HasVariants(req[r])
        => \A k \in 1..Len(req[r].variants) : Len(req[r].variants[k]) >= 2

\* the reference sequence: raw, uppercase, lowercase, whitespace-stripped,
\* non-alphanumeric-stripped, leading-zero-stripped, lab-prefix-stripped,
\* lab-prefix-stripped-then-leading-zero-stripped, zero-left-padded,
\* numeric-only; duplicates collapsed in first-seen order; length filter
Reference(i, cert) ==
    FilterMinLen(
        SetOrder(<<cert, toUpperCase(cert), toLowerCase(cert),
                   RemoveSpaces(cert), RemoveNonAlnum(cert),
                   StripLeadingZeros(cert), StripLG(cert),
                   StripLeadingZeros(StripLG(cert)),
                   padStart(cert, PadWidth), DigitsOnly(cert)>>),
        MinLen(i))

\* C19: the variants of S1, S2 and P1 equal the reference sequence.
C19_EqualsReference ==
    \A r \in DOMAIN req :
        LET s == req[r]
        IN (impl \in {"S1", "S2", "P1"} /\ HasVariants(s) /\ s.cert # <<>>)
           => s.variants = Reference(impl, s.cert)

\* C20: when the first variant of a certificate is itself sent as the
\* certificate, its variants contain it.
C20_Idempotent ==
    \A r \in DOMAIN req :
        req[r].pc = "regenerated" => req[r].raw \in Range(req[r].variants)

\* C20's case: in S1 the first variant was a zero-padded form, not the
\* certificate itself, and the variants generated from it contain it.
C20_Witness ==
    \E r \in DOMAIN req :
        /\ impl = "S1" /\ req[r].pc = "regenerated"
        /\ Len(req[r].raw) = PadWidth
        /\ req[r].variants[1] = req[r].raw

(***************************************************************************)
(* A lab-prefixed certificate: every server handling /search for the       *)
(* certificate LG628496664, the upstream answering each query with no      *)
(* match, a match, or an authorization failure; and the endpoint that      *)
(* reports on the authentication, /debug-auth or /test-auth.               *)
(***************************************************************************)
LabCert == <<"L", "G", "6", "2", "8", "4", "9", "6", "6", "6", "4">>
LabInputs == { LabCert }
LabAuthAnswers ==
    { AuthHttp(200, "notoken", NoToken), AuthHttp(200, "token", "tokA") }
LabQueryAnswers ==
    { Http(401, "notjson", 0, 0, "none"),
      Http(200, "data", 0, 0, "none"),
      Http(200, "data", 1, 1, "full") }
LabTestAnswers == { Reject, Http(200, "data", 1, 0, "none") }

NextLab ==
    \/ \E r \in DOMAIN req, raw \in LabInputs : Search(r, raw)
    \/ \E r \in DOMAIN req : DebugAuth(r)
    \/ \E r \in DOMAIN req, a \in LabTestAnswers : DebugTestResponse(r, a)
    \/ \E r \in DOMAIN req, a \in LabAuthAnswers : AuthResponse(r, a)
    \/ \E r \in DOMAIN req, a \in LabQueryAnswers : QueryResponse(r, a)
    \/ \E r \in DOMAIN req, sa \in ShopSearchAnswers : ShopSearchResponse(r, sa)
    \/ \E r \in DOMAIN req, ca \in ShopCreateAnswers : ShopCreateResponse(r, ca)
    \/ Tick

SpecLab == Init /\ [][NextLab]_vars

\* the certificate number without its lab prefix, and padded to ten digits
LabDigits == <<"6", "2", "8", "4", "9", "6", "6", "6", "4">>
LabPadded == <<"0">> \o LabDigits

\* what the network saw of request s agrees with an upstream that holds a
\* record under the certificate number v and under no other string
MatchesOnlyOn(s, v) ==
    /\ s.authFails = 0
    /\ \/ /\ s.allZero
          /\ \A k \in 1..Len(s.queried) :
                s.queried[k] # 0 /\ s.variants[s.queried[k]] # v
       \/ /\ s.queried # <<>>
          /\ s.firstNonZero = Len(s.queried)
          /\ s.lastAns = Http(200, "data", 1, 1, "full")
          /\ Last(s.queried) # 0
          /\ s.variants[Last(s.queried)] = v

\* C21: for the certificate LG628496664 the variants of the servers with a
\* one-variant-per-request loop include LG628496664, 628496664 and
\* 0628496664, and when the upstream matches only on 628496664 the response
\* of /search is found:true with the matched variant 628496664.
C21_LabPrefixStripped ==
    \A r \in DOMAIN req :
        LET s == req[r]
        IN (impl \in {"S1", "P1"} /\ s.cert = LabCert) =>
              /\ {LabCert, LabDigits, LabPadded} \subseteq Range(s.variants)
              /\ (s.pc = "done" /\ MatchesOnlyOn(s, LabDigits)) =>
                    /\ s.resp.found = "true"
                    /\ s.resp.variantMatched = LabDigits

\* C22: every found:true response carries a record and a redirect URL that
\* is not null, whatever the configuration: the base URL unset, the
\* storefront unconfigured or its lookup unsuccessful.
C22_FoundCarriesRecordAndUrl ==
    \A r \in DOMAIN req :
        LET s == req[r]
        IN (s.pc = "done" /\ s.resp.found = "true") =>
              /\ s.lastAns.items > 0
              /\ s.lastAns.item # "none"
              /\ s.resp.url \notin {"null", "none"}

(***************************************************************************)
(* The URL builders applied to every record and certificate string.        *)
(***************************************************************************)
\* the records the upstream may hold: a diamond or none, its certificate or
\* none, each field of the certificate present or absent
UrlCertificates ==
    [ defined : {TRUE},
      carats : {<<>>, <<"1", ".", "5">>},
      shape : {<<>>, <<"O", "v", "a", "l">>},
      lab : {<<>>, <<"G", "I", "A">>},
      color : {<<>>, <<"E">>},
      clarity : {<<>>, <<"V", "S", "2">>} ]
UrlDiamonds ==
    {Undefined}
    \cup { [defined |-> TRUE, certificate |-> c] :
              c \in {Undefined} \cup UrlCertificates }
UrlItems == { [defined |-> TRUE, diamond |-> d] : d \in UrlDiamonds }

\* the certificate strings a record is matched under
MaxCertLen == 3
UrlAlphabet == {"-", " ", ".", "A"}
UrlCerts == UNION { [1..n -> UrlAlphabet] : n \in 1..MaxCertLen }

UrlImpls == {"S1", "S2", "P1"}

InitUrl ==
    /\ impl \in UrlImpls
    /\ USE_BASIC_AUTH = FALSE /\ SHOPIFY_STORE = FALSE
    /\ MAP_BASE_URL \in (IF impl = "S2" THEN {TRUE} ELSE BOOLEAN)
    /\ cachedToken = NoToken
    /\ tokenExpiry = 0
    /\ tokenStart = 0
    /\ now = StartTime
    /\ catalog = NoCatalog
    /\ \E item \in UrlItems, v \in UrlCerts :
          req = [r \in Reqs |->
                    [Idle EXCEPT !.pc = "matched", !.cert = v,
                                 !.variants = <<v>>, !.idx = 1, !.found = item]]

\* the handler calls createProductUrl for the record it matched
BuildUrl(r) ==
    /\ req[r].pc = "matched"
    /\ LET s == req[r]
       IN req' = [req EXCEPT ![r] =
                    [s EXCEPT !.pc = "built",
                              !.productUrl =
                                  createProductUrl(impl, s.found, CurrentVariant(s))]]
    /\ UNCHANGED <<config, cache, now>>

NextUrl == \E r \in DOMAIN req : BuildUrl(r)

SpecUrl == InitUrl /\ [][NextUrl]_vars

\* the argument of createProductUrl: the diamond of the record, or in the
\* second server of src/server.js its certificate object or {}
UrlArgument(s) ==
    IF impl = "S2"
    THEN OrEmptyObject(Get(OrEmptyObject(Get(s.found, "diamond")), "certificate"))
    ELSE Get(s.found, "diamond")

\* C23: createProductUrl never throws and returns a non-empty string for
\* every record that is not null, also one without a certificate
\* sub-object and without any of the optional fields.
C23_UrlBuilderTotal ==
    \A r \in DOMAIN req :
        LET s == req[r]
        IN (s.pc = "built" /\ UrlArgument(s).defined) =>
              /\ ~s.productUrl.threw
              /\ s.productUrl.text # <<>>

\* C23 witness: a URL was built for a diamond that has no certificate
\* sub-object.
C23_Witness ==
    \E r \in DOMAIN req :
        /\ req[r].pc = "built"
        /\ impl = "P1"
        /\ Get(req[r].found, "diamond").defined
        /\ ~Get(Get(req[r].found, "diamond"), "certificate").defined
        /\ ~req[r].productUrl.threw
        /\ req[r].productUrl.handle # <<>>

\* C24: for every record that is not null and every certificate string the
\* handle that createProductUrl appends to the base URL has only the
\* characters a-z, 0-9 and -, has no two hyphens in a row, and neither
\* begins nor ends with a hyphen.
C24_HandleWellFormed ==
    \A r \in DOMAIN req :
        LET s == req[r]
            h == s.productUrl.handle
        IN (s.pc = "built" /\ UrlArgument(s).defined) =>
              /\ \A k \in 1..Len(h) : IsLower(h[k]) \/ IsDigit(h[k]) \/ h[k] = "-"
              /\ \A k \in 1..(Len(h) - 1) : ~(h[k] = "-" /\ h[k + 1] = "-")
              /\ h # <<>> => (h[1] # "-" /\ h[Len(h)] # "-")

\* C24 witness: a handle was built in the first server of src/server.js
\* from a certificate string that begins with a hyphen, ends with a space
\* and holds a character outside a-z, 0-9, space and hyphen.
C24_Witness ==
    \E r \in DOMAIN req :
        /\ req[r].pc = "built"
        /\ impl = "S1"
        /\ Get(req[r].found, "diamond").defined
        /\ req[r].cert = <<"-", ".", " ">>
        /\ req[r].productUrl.handle # <<>>

\* whether the text part occurs in the text s
Contains(s, part) ==
    \E k \in 0..(Len(s) - Len(part)) : SubSeq(s, k + 1, k + Len(part)) = part

\* the certificate sub-object of the record a URL is built for
CertificateOf(s) == Get(Get(s.found, "diamond"), "certificate")

\* C25: the title made into the handle is built from the matched record's
\* fields in the order carat weight, shape, lab, color, clarity, certificate
\* number, and only fields that are not empty contribute: a record without
\* a carat weight gives no ct part, and a record with shape, lab, color and
\* clarity gives a /search URL that contains them, in that order.
C25_TitleFromFields ==
    \A r \in DOMAIN req :
        LET s == req[r]
            c == CertificateOf(s)
            h == s.productUrl.handle
        IN (s.pc = "built" /\ c.defined) =>
              /\ c.carats = <<>> => ~Contains(h, Ct)
              /\ (c.shape # <<>> /\ c.lab # <<>> /\ c.color # <<>>
                     /\ c.clarity # <<>>) =>
                    Contains(h, Handle(Join(<<c.shape, c.lab, c.color, c.clarity>>,
                                            <<" ">>)))

\* C26: with the storefront configured, the catalog lookup is attempted
\* before a matched request is answered, and when the lookup finds no
\* product or fails (network error, non-success status, body that does not
\* parse) the request is still answered found:true, not with an error.
C26_LookupFailureFallsBack ==
    [][\A r \in DOMAIN req :
          LET s == req[r]
              t == req'[r]
          IN /\ (s.pc = "query" /\ t.pc = "done" /\ t.resp.found = "true") =>
                    ~(SHOPIFY_STORE /\ impl \in {"P0", "P3"})
             /\ (s.pc \in {"shopSearch", "shopCreate"} /\ t.pc = "done") =>
                    /\ t.resp.found = "true"
                    /\ t.resp.code = 200
                    /\ ~t.resp.error]_vars

\* C27: when the answer to a query sent in basic mode is an authorization
\* failure (status 401), the query client repeats the same query in bearer mode, with a
\* token of the credential cache (fetched first if the cache has none).
C27_BasicFallsBackToBearer ==
    [][\A r \in DOMAIN req :
          LET s == req[r]
              t == req'[r]
          IN (/\ impl \in {"P0", "P2", "P3"}
              /\ s.pc = "query" /\ s.token = BasicCred
              /\ Len(t.attempts) = Len(s.attempts) + 1
              /\ Last(t.attempts).status = 401) =>
                /\ t.pc \in {"auth", "query"}
                /\ t.idx = s.idx
                /\ t.token # BasicCred]_vars

\* C28: no response of any endpoint, /debug-auth and the 500 bodies
\* included, holds the bearer token or a part of it.
C28_NoCredentialInResponse ==
    \A r \in DOMAIN req :
        req[r].pc = "done" => req[r].bodyToken.of = NoToken

(***************************************************************************)
(* The batched query and the loop of the second server of src/server.js:   *)
(* two /search requests against an upstream with fixed holdings.  A        *)
(* request's batched query is answered, or it fails in transport and the   *)
(* handler falls through to the loop, whose queries are answered.          *)
(***************************************************************************)
BatchInputs == { <<"L", "G", "1", "2">>, <<"1", "2">> }
BatchNumbers == { <<"L", "G", "1", "2">>, <<"l", "g", "1", "2">>, <<"1", "2">> }

\* the upstream's holdings: the certificate numbers it has a record under,
\* and whether its records carry their certNumber
Catalogs == [held : SUBSET BatchNumbers, certNumber : BOOLEAN]

\* the record held under the certificate number v
ItemFor(v) ==
    [defined |-> TRUE,
     diamond |->
        [defined |-> TRUE,
         certificate |->
            [defined |-> TRUE,
             certNumber |-> IF catalog.certNumber THEN v ELSE <<>>,
             shape |-> <<"O", "v", "a", "l">>]]]

\* the certificate numbers the query in flight asks for: certArray
Asked(s) == IF s.idx = 0 THEN Range(s.variants) ELSE {s.variants[s.idx]}

\* what the upstream may answer to the query in flight: total_count is the
\* number of records held under the numbers asked for, and items lists them
\* in an order of the upstream's choosing
CatalogAnswers(s) ==
    LET hits == Asked(s) \cap catalog.held
        n == Cardinality(hits)
    IN IF hits = {} THEN { Http(200, "data", 0, 0, "none") }
       ELSE { [net |-> "ok", status |-> 200, body |-> "data", total |-> n,
               items |-> n, item |-> "full", found |-> ItemFor(v)] : v \in hits }

BatchAuthAnswers == { AuthHttp(200, "token", "tokA") }

InitBatch ==
    /\ impl = "S2"
    /\ USE_BASIC_AUTH = FALSE /\ SHOPIFY_STORE = FALSE /\ MAP_BASE_URL = TRUE
    /\ cachedToken = NoToken
    /\ tokenExpiry = 0
    /\ tokenStart = 0
    /\ now = StartTime
    /\ catalog \in Catalogs
    /\ req = [r \in ConcReqs |-> Idle]

\* the batched query fails in transport
BatchFails(r) ==
    /\ req[r].idx = 0
    /\ QueryResponse(r, Reject)

NextBatch ==
    \/ \E r \in DOMAIN req, raw \in BatchInputs : Search(r, raw)
    \/ \E r \in DOMAIN req, a \in BatchAuthAnswers : AuthResponse(r, a)
    \/ \E r \in DOMAIN req :
          \E a \in CatalogAnswers(req[r]) : QueryResponse(r, a)
    \/ \E r \in DOMAIN req : BatchFails(r)

SpecBatch == InitBatch /\ [][NextBatch]_vars

\* whether request s sent queries of one variant
InLoop(s) == \E k \in 1..Len(s.queried) : s.queried[k] # 0

\* C29: in the second server of src/server.js, for every assignment of
\* upstream records to variants, the response of a request whose batched
\* query was answered is the same, in found, record, certificate and URL,
\* as the response of a request that went through the loop of one variant
\* per query.
C29_BatchEqualsLoop ==
    \A r1, r2 \in DOMAIN req :
        LET s == req[r1]
            t == req[r2]
        IN (/\ s.pc = "done" /\ t.pc = "done"
            /\ s.cert = t.cert /\ s.cert # <<>>
            /\ ~InLoop(s) /\ InLoop(t)) =>
              /\ s.resp.found = t.resp.found
              /\ s.found = t.found
              /\ s.resp.variantMatched = t.resp.variantMatched
              /\ s.productUrl = t.productUrl

\* the response of request s had every one of its variants been answered
\* with a success and zero matches
ZeroMatchResponse(s) ==
    NotFound([s EXCEPT !.attempts =
                 [k \in 1..Len(s.variants) |->
                     NewAttempt(impl, s.variants[k], Http(200, "data", 0, 0, "none"))]])

\* C30: when the query of every variant fails, in the servers with a loop of
\* one variant per query that goes on after a failure, /search answers with
\* an error the caller sees, and the response differs from the one given
\* when every variant came back with zero matches.
C30_AllFailedIsAnError ==
    \A r \in DOMAIN req :
        LET s == req[r]
        IN (/\ impl \in {"S1", "P1"}
            /\ s.pc = "done" /\ s.endpoint = "search"
            /\ s.queried # <<>> /\ Len(s.queried) = Len(s.variants)
            /\ s.allFailed) =>
              /\ s.resp.error
              /\ s.resp # ZeroMatchResponse(s)

\* C31: in the first server of src/server.js, when the upstream answers a
\* variant's query with a success status and a body that parses and reports
\* query errors in the place of data, the attempt recorded for the variant
\* has an error detail that is not null and differs from the attempt
\* recorded for an answer of zero matches.
C31_AttemptReportsQueryErrors ==
    \A r \in DOMAIN req :
        LET s == req[r]
        IN (/\ impl = "S1"
            /\ s.pc = "done" /\ s.endpoint = "search"
            /\ s.authFails = 0
            /\ s.attempts # <<>> /\ Len(s.attempts) = Len(s.queried)
            /\ s.lastAns.net = "ok" /\ HttpOk(s.lastAns.status)
            /\ s.lastAns.body = "errors") =>
              /\ Last(s.attempts).error # "null"
              /\ Last(s.attempts) #
                    NewAttempt(impl, Last(s.attempts).variant,
                               Http(200, "data", 0, 0, "none"))

\* C32: in part_000 a /search request sends at most one product creation
\* to the storefront and never sends it again; it sends it only after its
\* product search came back without a product; and it sends nothing to the
\* storefront when the storefront is not configured or no variant matched.
C32_CreationIsOneShot ==
    \A r \in DOMAIN req :
        LET s == req[r]
        IN impl = "P0" =>
              /\ s.shopCreates <= 1 /\ s.shopSearches <= 1
              /\ s.shopCreates = 1 => (s.shopSearches = 1 /\ s.lastShop = "empty")
              /\ (~SHOPIFY_STORE \/ s.firstNonZero = 0) =>
                    (s.shopSearches = 0 /\ s.shopCreates = 0)

\* C32 witness: a request of part_000 was answered after its product
\* creation did not succeed.
C32_Witness ==
    \E r \in DOMAIN req :
        /\ impl = "P0" /\ req[r].pc = "done"
        /\ req[r].shopCreates = 1
        /\ req[r].resp.url = "collection"

\* C33: the token and its expiry are written together.  In every state,
\* whatever the interleaving of the requests, cachedToken is null exactly
\* when tokenExpiry is 0; and every step that changes one of them is the
\* success of one refresh, which writes the token of its answer and the
\* expiry counted from its own start.
C33_TokenAndExpiryTogether ==
    /\ [](cachedToken = NoToken <=> tokenExpiry = 0)
    /\ [][(cachedToken' # cachedToken \/ tokenExpiry' # tokenExpiry) =>
             \E r \in DOMAIN req :
                /\ req[r].pc = "auth"
                /\ req'[r].lastAuth.out = "token"
                /\ req'[r].lastAuth.tok # NoToken
                /\ cachedToken' = req'[r].lastAuth.tok
                /\ tokenExpiry' = req[r].authNow + TTL(impl)]_vars

\* C33 witness: two requests refreshed with different tokens, the later
\* refresh started after time had passed, and the cache holds its token
\* with its expiry.
C33_Witness ==
    \E r1, r2 \in DOMAIN req :
        /\ req[r1].lastAuth.out = "token" /\ req[r2].lastAuth.out = "token"
        /\ req[r1].lastAuth.tok # req[r2].lastAuth.tok
        /\ cachedToken = req[r2].lastAuth.tok
        /\ tokenExpiry > StartTime + TTL(impl)

\* C34: a failed authentication leaves the credential cache as it was.  In
\* the first server of src/server.js and in part_001, when the answer to
\* the authenticate request is a network failure, a non-success status, a
\* body that does not parse or a body without a token, cachedToken and
\* tokenExpiry keep their values, the cache stays invalid, and the next
\* call of the authentication function sends a new authenticate request.
C34_FailedAuthKeepsCache ==
    [][\A r \in DOMAIN req :
          LET s == req[r]
              t == req'[r]
          IN (/\ impl \in {"S1", "P1"}
              /\ s.pc = "auth" /\ t # s
              /\ ~t.lastAuth.good) =>
                /\ cachedToken' = cachedToken
                /\ tokenExpiry' = tokenExpiry
                /\ ~CacheValid(cachedToken', tokenExpiry', now')
                /\ t.authFails = s.authFails + 1
                /\ t.pc # "done" => (t.pc = "auth" /\ t.netAuth = s.netAuth + 1)]_vars

\* C34 witness: an authentication failed while the cache held an expired
\* token, and the cache still holds that token.
C34_Witness ==
    \E r \in DOMAIN req :
        /\ impl \in {"S1", "P1"}
        /\ req[r].authFails > 0
        /\ cachedToken # NoToken
        /\ now >= tokenExpiry

\* C35: a token is never served from the cache past its time-to-live.  In
\* every step in which a call of the authentication function returns the
\* cached token, also after refreshes of two requests overwrote each other,
\* the token is the one in the cache and the time is strictly less than the
\* start of the authenticate request that obtained it plus the
\* time-to-live.
C35_NeverServedPastTTL ==
    [][\A r \in DOMAIN req :
          (CallsAuth(r) /\ req'[r].lastAuth.out = "cached") =>
             /\ req'[r].token = cachedToken
             /\ cachedToken # NoToken
             /\ now < tokenStart + TTL(impl)]_vars

\* C35 witness: a query carries the token served from a cache that a
\* second refresh had overwritten, half a time-to-live after that refresh
\* started.
C35_Witness ==
    \E r1, r2 \in DOMAIN req :
        /\ r1 # r2
        /\ req[r1].pc = "query" /\ req[r1].lastAuth.out = "cached"
        /\ req[r1].token = cachedToken
        /\ req[r2].lastAuth.out = "token"
        /\ tokenStart > StartTime
        /\ now = tokenStart + TickStep(impl)

\* C36: in the first server of src/server.js a found:false response implies
\* that every attempt it lists has total 0 and hasData false: no answer
\* that reported a non-zero total_count is followed by further queries or
\* by the not-found response.
C36_NotFoundMeansNoTotals ==
    \A r \in DOMAIN req :
        LET s == req[r]
        IN (/\ impl = "S1"
            /\ s.pc = "done" /\ s.endpoint = "search"
            /\ s.resp.code = 200 /\ s.resp.found = "false") =>
              \A k \in 1..Len(s.resp.attempts) :
                 /\ s.resp.attempts[k].total = 0
                 /\ ~s.resp.attempts[k].hasData

\* C37: at every point of a /search request the attempts list follows the
\* variant sequence, attempt i recording variant i; and in a found:true
\* response the last attempt's variant is variantMatched and no earlier
\* query passed the handler's match test.
C37_AttemptsFollowVariants ==
    \A r \in DOMAIN req :
        LET s == req[r]
        IN (HasAttempts(impl) /\ s.endpoint = "search") =>
              /\ Len(s.attempts) <= Len(s.variants)
              /\ \A k \in 1..Len(s.attempts) : s.attempts[k].variant = s.variants[k]
              /\ (s.pc = "done" /\ s.resp.found = "true") =>
                    /\ s.resp.attempts = s.attempts
                    /\ s.attempts # <<>>
                    /\ Last(s.attempts).variant = s.resp.variantMatched
                    /\ s.firstMatch = Len(s.queried)

\* C37 witness: a found:true response of the first server of src/server.js
\* whose match came after an attempt that failed and an attempt without a
\* match.
C37_Witness ==
    \E r \in DOMAIN req :
        /\ impl = "S1"
        /\ req[r].pc = "done" /\ req[r].resp.found = "true"
        /\ Len(req[r].attempts) >= 3
        /\ req[r].attempts[1].error # "null"
        /\ req[r].attempts[2].error = "null"


(***************************************************************************)
(* Termination.  Every upstream call of a request settles: the runtime      *)
(* resumes the handler at its await once the promise of fetchFn resolves or *)
(* rejects, so each response step that stays enabled is eventually taken.   *)
(***************************************************************************)
Settles(r) ==
    /\ WF_vars(\E a \in AuthAnswers : AuthResponse(r, a))
    /\ WF_vars(\E a \in QueryAnswers : QueryResponse(r, a))
    /\ WF_vars(\E sa \in ShopSearchAnswers : ShopSearchResponse(r, sa))
    /\ WF_vars(\E ca \in ShopCreateAnswers : ShopCreateResponse(r, ca))

SpecLive == Init /\ [][Next]_vars /\ \A r \in Reqs : Settles(r)

\* whether the request r is between its arrival and its response
Pending(r) == req[r].pc \notin {"idle", "done"}

C39_BasicModeNeverAuthenticates ==
    USE_BASIC_AUTH =>
        /\ cachedToken = NoToken
        /\ tokenExpiry = 0
        /\ \A r \in DOMAIN req :
              /\ req[r].pc # "auth"
              /\ req[r].netAuth = 0
              /\ req[r].lastAuth = NoAuth
              /\ req[r].pc = "query" => req[r].token = BasicCred

\* C39 witness: in basic-auth mode of part_003, after time has passed, a
\* /search request has its certificate query in flight with the basic
\* credential.
C39_Witness ==
    \E r \in DOMAIN req :
        /\ USE_BASIC_AUTH /\ impl = "P3"
        /\ now > StartTime
        /\ req[r].endpoint = "search"
        /\ req[r].pc = "query"
        /\ req[r].token = BasicCred

=============================================================================
